---- MODULE Spec2Model ----
(***************************************************************************)
(* The HTTP request helper (request/index.ts): request builder, request    *)
(* executor with timeout cancellation and bounded retry, get/post wrappers *)
(* and the module-wide defaults.                                           *)
(***************************************************************************)
EXTENDS Integers, Sequences, FiniteSets, TLC

\* Largest positive maxRetry a caller passes in the model.
MaxRetryBound == 2
\* Most loggers created in the model.
MaxLoggers == 3
\* Most loggers created in the runs that log.
MaxLogLoggers == 2

(***************************************************************************)
(* JavaScript values.  A number is [t, v]: "int" is the integer v, "frac"  *)
(* is v + 0.5, "huge" is 2^53 (an integer above MAX_SAFE_INTEGER), "undef" *)
(* is an absent option.  Booleans and strings of an options bag are        *)
(* strings, "undef" when absent.                                           *)
(***************************************************************************)
Undef == "undef"
Num(t, v) == [t |-> t, v |-> v]
UndefNum == Num("undef", 0)
IntNum(n) == Num("int", n)
FracNum(n) == Num("frac", n)
HugeNum == Num("huge", 0)

\* Number.isSafeInteger
IsSafeInteger(x) == x.t = "int"

\* x > 0 on numbers
GreaterThanZero(x) ==
    \/ x.t = "int" /\ x.v > 0
    \/ x.t = "frac" /\ x.v >= 0
    \/ x.t = "huge"

\* counter > maxRetry, counter an integer
CounterExceeds(counter, m) ==
    CASE m.t = "int" -> counter > m.v
      [] m.t = "frac" -> counter > m.v
      [] OTHER -> FALSE

\* timeout = 120 * 1000
DefaultTimeout == 120000
\* maxRetry = 0
DefaultMaxRetry == 0

\* A destructuring default: `{ x = d } = options`
OrDefault(v, d) == IF v = Undef THEN d ELSE v
OrDefaultNum(v, d) == IF v.t = "undef" THEN d ELSE v

(***************************************************************************)
(* Signals and timers.  The controller created by attempt k of call c, its *)
(* signal and the timer that aborts it all carry the id <<c, k>>.          *)
(***************************************************************************)
NoSignal == <<0, 0>>
\* the signal of a controller the caller made itself and passes as options.signal
CallerSignal == <<0, 1>>
NoTimer == <<0, 0>>

(***************************************************************************)
(* Options bags (CommonRequestOptions).  headers is a set of <<name,       *)
(* value>> pairs as the caller wrote them; the empty set is "no headers".  *)
(***************************************************************************)
EmptyOptions ==
    [method |-> Undef, appendTimestamp |-> Undef, timestampParamName |-> Undef,
     timeout |-> UndefNum, maxRetry |-> UndefNum, useDefaultUserAgent |-> Undef,
     responseTransformer |-> Undef, headers |-> {}, signal |-> NoSignal]

\* request's default parameter: options = { method: 'GET' }
DefaultRequestOptions == [EmptyOptions EXCEPT !.method = "GET"]

\* { method: m, ...options }
SpreadMethod(m, options) ==
    [options EXCEPT !.method = IF options.method = Undef THEN m ELSE options.method]

\* { ...globalOptions, ...options }: the per-call layer over the global one
MergeOptions(global, options) ==
    [method |-> OrDefault(options.method, global.method),
     appendTimestamp |-> OrDefault(options.appendTimestamp, global.appendTimestamp),
     timestampParamName |-> OrDefault(options.timestampParamName, global.timestampParamName),
     timeout |-> OrDefaultNum(options.timeout, global.timeout),
     maxRetry |-> OrDefaultNum(options.maxRetry, global.maxRetry),
     useDefaultUserAgent |-> OrDefault(options.useDefaultUserAgent, global.useDefaultUserAgent),
     responseTransformer |-> OrDefault(options.responseTransformer, global.responseTransformer),
     headers |-> IF options.headers = {} THEN global.headers ELSE options.headers,
     signal |-> IF options.signal = NoSignal THEN global.signal ELSE options.signal]

(***************************************************************************)
(* URLs.  A parsed URL is [params]: its query as a set of <<name, value>>. *)
(* A url argument is a string or "obj", the caller's parsed URL object.    *)
(***************************************************************************)
UrlStrings == {"https://example.com", "https://example.com?t=existing",
               "https://example.com?ts=existing", "not a url"}
UrlArgs == UrlStrings \cup {"obj"}

\* new URL(string): throws TypeError on a string that is no absolute URL
ParsesAsUrl(s) == s # "not a url"
ParseUrl(s) ==
    CASE s = "https://example.com?t=existing" -> [params |-> {<<"t", "existing">>}]
      [] s = "https://example.com?ts=existing" -> [params |-> {<<"ts", "existing">>}]
      [] OTHER -> [params |-> {}]

\* url.searchParams.has(name)
SearchParamsHas(url, name) == \E p \in url.params : p[1] = name
\* url.searchParams.set(name, value)
SearchParamsSet(url, name, value) ==
    [params |-> {p \in url.params : p[1] # name} \cup {<<name, value>>}]

(***************************************************************************)
(* Headers: names are matched case-insensitively (stored lower-cased).     *)
(***************************************************************************)
LowerCase(n) ==
    CASE n = "User-Agent" -> "user-agent"
      [] n = "USER-AGENT" -> "user-agent"
      [] n = "X-Global" -> "x-global"
      [] n = "Cookie" -> "cookie"
      [] OTHER -> n
\* new Headers(init)
NewHeaders(init) == {<<LowerCase(p[1]), p[2]>> : p \in init}
\* headers.has(name)
HeadersHas(h, name) == \E p \in h : p[1] = LowerCase(name)
\* headers.set(name, value)
HeadersSet(h, name, value) ==
    {p \in h : p[1] # LowerCase(name)} \cup {<<LowerCase(name), value>>}
\* headers.get(name), "undef" when absent
HeadersGet(h, name) ==
    IF HeadersHas(h, name)
    THEN (CHOOSE p \in h : p[1] = LowerCase(name))[2]
    ELSE Undef

(***************************************************************************)
(* Responses, errors, results.                                             *)
(***************************************************************************)
NoId == <<0, 0>>
\* A cookie, as a Set-Cookie header sets it and a Cookie header carries it.
Cookie(name, value) == [name |-> name, value |-> value]
\* A response: its status, its identity, the cookies of its Set-Cookie headers.
ResponseWith(status, id, setCookie) ==
    [status |-> status, id |-> id, setCookie |-> setCookie]
Response(status, id) == ResponseWith(status, id, {})
NoResponse == Response(0, NoId)
\* response.ok
ResponseOk(res) == res.status >= 200 /\ res.status <= 299

Message(text, num, str) == [text |-> text, num |-> num, str |-> str]
\* An Error object: name, message and, on a RequestError, the response.
Error(name, message, response) ==
    [name |-> name, message |-> message, response |-> response]
NoError == Error("none", Message("", UndefNum, ""), NoResponse)

\* new RequestError(message, response): class RequestError extends Error
RequestError(message, response) == Error("RequestError", message, response)
\* `时间戳参数${timestampParamName}冲突：${url}`
ConflictError(paramName) ==
    Error("Error", Message("timestampConflict", UndefNum, paramName), NoResponse)
\* the TypeError of new URL(...)
InvalidUrlError == Error("TypeError", Message("invalidUrl", UndefNum, ""), NoResponse)
\* the error the transport rejects its id-th call with
TransportError(id) ==
    Error("TransportError", Message("network", IntNum(id[2]), ToString(id[1])), NoResponse)

\* the error a response transformer that cannot read the body throws
TransformerError == Error("SyntaxError", Message("transformer", UndefNum, ""), NoResponse)

NoValue == [by |-> "none", of |-> NoId]
\* what transformer `by` makes of response `res`
Transformed(by, res) == [by |-> by, of |-> res.id]

Success(val) == [ok |-> TRUE, val |-> val, err |-> NoError]
Failure(err) == [ok |-> FALSE, val |-> NoValue, err |-> err]
NoResult == [ok |-> FALSE, val |-> NoValue, err |-> NoError]

NoRequest ==
    [built |-> FALSE, url |-> [params |-> {}], method |-> Undef, headers |-> {},
     signal |-> NoSignal]

\* the error a fetch rejects with once its signal is aborted
AbortError == Error("AbortError", Message("aborted", UndefNum, ""), NoResponse)

(***************************************************************************)
(* createRequest(reqUrl, options): the request built, or the error thrown, *)
(* and the state it leaves the caller's URL object in.                     *)
(***************************************************************************)
\* Mutant: the conflict check looks for the default name 't' only.
TimestampConflictDefaultName(url, timestampParamName) == SearchParamsHas(url, "t")

\* url.searchParams.has(timestampParamName)
TimestampConflict(url, timestampParamName) == SearchParamsHas(url, timestampParamName)

\* Mutant: the default user-agent is set without looking at the headers.
InjectsUserAgentAlways(useDefaultUserAgent, headers) == useDefaultUserAgent = "true"

\* useDefaultUserAgent && !request.headers.has('user-agent')
InjectsUserAgent(useDefaultUserAgent, headers) ==
    useDefaultUserAgent = "true" /\ ~HeadersHas(headers, "user-agent")

CreateRequest(reqUrl, options, uobj, browser, userAgent) ==
    LET appendTimestamp == OrDefault(options.appendTimestamp, "false")
        timestampParamName == OrDefault(options.timestampParamName, "t")
        useDefaultUserAgent ==
            OrDefault(options.useDefaultUserAgent, IF browser THEN "false" ELSE "true")
        Throw(e) == [threw |-> TRUE, err |-> e, request |-> NoRequest, urlObj |-> uobj]
    IN  IF reqUrl # "obj" /\ ~ParsesAsUrl(reqUrl)
        THEN Throw(InvalidUrlError)
        ELSE
          LET url == IF reqUrl = "obj" THEN uobj ELSE ParseUrl(reqUrl)
          IN  IF appendTimestamp = "true" /\ TimestampConflict(url, timestampParamName)
              THEN Throw(ConflictError(timestampParamName))
              ELSE
                LET stamped == IF appendTimestamp = "true"
                               THEN SearchParamsSet(url, timestampParamName, "now")
                               ELSE url
                    headers == NewHeaders(options.headers)
                IN  [threw |-> FALSE, err |-> NoError,
                     request |->
                       [built |-> TRUE, url |-> stamped,
                        method |-> OrDefault(options.method, "GET"),
                        headers |-> IF InjectsUserAgent(useDefaultUserAgent, headers)
                                    THEN HeadersSet(headers, "user-agent", userAgent)
                                    ELSE headers,
                        signal |-> options.signal],
                     urlObj |-> IF reqUrl = "obj" THEN stamped ELSE uobj]

(***************************************************************************)
(* The promise chain of one attempt: fetch(request).then.catch.finally     *)
(***************************************************************************)
\* transformer(res): the transformer "failing" throws, any other returns its value
RunTransformer(transformer, res) ==
    IF transformer = "failing"
    THEN Failure(TransformerError)
    ELSE Success(Transformed(transformer, res))

\* Mutant: the transformer the module started with is used, whatever the setter stored.
ThenHandlerInitialDefault(res, options, defaultTransformer) ==
    IF ~ResponseOk(res)
    THEN Failure(RequestError(Message("transientFluctuation", UndefNum, ""), res))
    ELSE IF options.responseTransformer # Undef
         THEN RunTransformer(options.responseTransformer, res)
         ELSE RunTransformer("text", res)

\* .then((res) => ...)
ThenHandler(res, options, defaultTransformer) ==
    IF ~ResponseOk(res)
    THEN Failure(RequestError(Message("transientFluctuation", UndefNum, ""), res))
    ELSE IF options.responseTransformer # Undef
         THEN RunTransformer(options.responseTransformer, res)
         ELSE RunTransformer(defaultTransformer, res)

\* .catch((err) => ...)
CatchHandler(err, timeout) ==
    IF err.name = "AbortError"
    THEN RequestError(Message("timeout", timeout, ""), NoResponse)
    ELSE err

\* .finally(...): clearTimeout(timeoutId) when timeoutId is defined
ClearTimeout(tm, timeoutId) ==
    IF timeoutId # NoTimer /\ timeoutId \in tm.pending
    THEN [tm EXCEPT !.pending = @ \ {timeoutId}, !.cleared = @ \cup {timeoutId}]
    ELSE tm

\* Number.isSafeInteger(timeout) && timeout > 0
ArmsTimeout(timeout) == IsSafeInteger(timeout) /\ GreaterThanZero(timeout)
\* Mutant: maxRetry > 0 without the safe-integer test.
RetryingAnyPositive(maxRetry) == GreaterThanZero(maxRetry)

\* Number.isSafeInteger(maxRetry) && maxRetry > 0
Retrying(maxRetry) == IsSafeInteger(maxRetry) /\ GreaterThanZero(maxRetry)

\* Mutant: `if (!timeout) timeout = 120 * 1000`, which also replaces a timeout of 0.
ResolveTimeoutFalsy(options) ==
    IF options.timeout.t = "undef" \/ options.timeout = IntNum(0)
    THEN IntNum(DefaultTimeout)
    ELSE options.timeout

\* const { timeout = 120 * 1000, maxRetry = 0 } = options
ResolveTimeout(options) == OrDefaultNum(options.timeout, IntNum(DefaultTimeout))
ResolveMaxRetry(options) == OrDefaultNum(options.maxRetry, IntNum(DefaultMaxRetry))

(***************************************************************************)
(* The cookie-aware client (HttpClient): a cookie jar keyed by canonical   *)
(* domain, read into the Cookie header before dispatch and written from    *)
(* the Set-Cookie headers of the responses.                                *)
(***************************************************************************)
Domains == {"example.com", "other.test"}
\* the canonical domain of a url argument
CanonicalDomain(url) == IF url = "https://other.test" THEN "other.test" ELSE "example.com"

CookieNameOrder == <<"lang", "sid", "theme">>
CookieValues == {"a", "b", "en", "dark", "manual"}
AllCookies == {Cookie(CookieNameOrder[i], v) : i \in DOMAIN CookieNameOrder, v \in CookieValues}
CookieNames(cookies) == {k.name : k \in cookies}
\* a set of cookies with one value per name
IsCookieMap(cookies) == \A k1, k2 \in cookies : k1.name = k2.name => k1 = k2

\* `name=value`
CookieString(k) == k.name \o "=" \o k.value
\* the header string `name=value; name=value` of a cookie map
RECURSIVE JoinCookies(_, _)
JoinCookies(cookies, i) ==
    IF i > Len(CookieNameOrder) THEN ""
    ELSE LET here == {k \in cookies : k.name = CookieNameOrder[i]}
             rest == JoinCookies(cookies, i + 1)
         IN  IF here = {} THEN rest
             ELSE LET str == CookieString(CHOOSE k \in here : TRUE)
                  IN  IF rest = "" THEN str ELSE str \o "; " \o rest
SerializeCookies(cookies) == JoinCookies(cookies, 1)
\* the cookie map a Cookie header string parses to; empty for an absent header
ParseCookieHeader(str) ==
    IF str = Undef THEN {}
    ELSE CHOOSE cookies \in SUBSET AllCookies :
            IsCookieMap(cookies) /\ SerializeCookies(cookies) = str

\* Mutant: the cookies of a response replace all the domain had.
StoreCookiesReplacingAll(j, domain, cookies) == [j EXCEPT ![domain] = cookies]

\* jar.setCookie for each cookie of a response: a cookie replaces the one of its name
StoreCookies(j, domain, cookies) ==
    [j EXCEPT ![domain] = {k \in @ : k.name \notin CookieNames(cookies)} \cup cookies]

\* Mutant: on a shared name the stored cookie wins.
MergeCookiesStoredWins(stored, manual) ==
    {k \in manual : k.name \notin CookieNames(stored)} \cup stored

\* the stored cookies and the caller's in one map: the caller's win on a shared name
MergeCookies(stored, manual) ==
    {k \in stored : k.name \notin CookieNames(manual)} \cup manual

\* the options the client hands to the executor: the caller's, with the Cookie
\* header replaced by the merged one
ClientOptions(options, j, domain) ==
    LET manual == ParseCookieHeader(HeadersGet(NewHeaders(options.headers), "cookie"))
        merged == MergeCookies(j[domain], manual)
        others == {p \in options.headers : LowerCase(p[1]) # "cookie"}
    IN  [options EXCEPT !.headers =
            IF merged = {} THEN others
            ELSE others \cup {<<"cookie", SerializeCookies(merged)>>}]

\* Mutant: the cookies are stored once the underlying transformer has returned.
WrappedTransformerStoresAfter(res, options, defaultTransformer, j, domain) ==
    LET result == ThenHandler(res, options, defaultTransformer)
    IN  [jar |-> IF result.ok THEN StoreCookies(j, domain, res.setCookie) ELSE j,
         result |-> result]

\* the transformer the client installs: store the Set-Cookie headers of the
\* response, then run the effective transformer
WrappedTransformer(res, options, defaultTransformer, j, domain) ==
    [jar |-> StoreCookies(j, domain, res.setCookie),
     result |-> ThenHandler(res, options, defaultTransformer)]

\* Mutant: a failed call leaves the jar alone.
ExtractOnErrorNever(err, j, domain) == j

\* the client's handler of a failed call: a RequestError that carries a response
\* has that response's Set-Cookie headers stored
ExtractOnError(err, j, domain) ==
    IF err.name = "RequestError" /\ err.response # NoResponse
    THEN StoreCookies(j, domain, err.response.setCookie)
    ELSE j

\* Mutant: HttpClient calls get the global layer too.
GlobalLayerForAll(via, global) == global

\* the globalOptions layer of a call: the facade's request, get and post merge
\* it, the client's do not
GlobalLayer(via, global) == IF via = "client" THEN EmptyOptions ELSE global

\* One Set-Cookie processing: the cookies stored for a domain, for which call.
StoreEvent(c, domain, cookies) == [by |-> c, domain |-> domain, cookies |-> cookies]

(***************************************************************************)
(* State.                                                                  *)
(***************************************************************************)
VARIABLES
    isBrowser,                  \* util: isBrowser
    defaultUserAgent,           \* let defaultUserAgent
    defaultResponseTransformer, \* let defaultResponseTransformer
    globalOptions,              \* Http.globalOptions
    optObj,                     \* heap of options objects: 0 is the caller's, c is call c's own
    urlObj,                     \* the caller's parsed URL object
    timers,                     \* ids of the timers pending, fired and cleared
    call,                       \* the request calls, by call id
    slots,                      \* the call ids the callers of this run use
    abortedSignals,             \* the signals of its own the caller has aborted
    jar,                        \* HttpClient: cookieJar, the cookies stored per domain
    cookieLog,                  \* the Set-Cookie headers the client processed, in order
    serverCookies,              \* the Set-Cookie headers the servers of this run send
    loggers,                    \* the LoggerImpl objects created, in creation order
    levelDelegations,           \* the LevelDelegation objects created: their level
    lastOp,                     \* the last operation on a logger
    transports,                 \* the Transport objects the caller made: their level
    handled,                    \* the handle calls the last log call made, in order
    extraObj                    \* the extra object the caller passes to log

\* the state of the cookie-aware client and of the loggers
clientVars == <<jar, cookieLog, serverCookies>>
loggerVars == <<loggers, levelDelegations, lastOp, transports, handled, extraObj>>

vars == <<isBrowser, defaultUserAgent, defaultResponseTransformer, globalOptions,
          optObj, urlObj, timers, call, slots, abortedSignals, jar, cookieLog,
          serverCookies,
          loggers, levelDelegations, lastOp, transports, handled, extraObj>>

Calls == {1, 2}
ObjIds == {0} \cup Calls

UserAgents == {"Chrome/128", "Custom-Agent/1.0"}
Transformers == {"text", "json"}
Statuses == {200, 404, 500}

IdleCall ==
    [pc |-> "idle", via |-> "none", url |-> "obj", opt |-> 0,
     timeout |-> UndefNum, maxRetry |-> UndefNum, counter |-> 0,
     timeoutId |-> NoTimer, req |-> NoRequest, attempts |-> 0,
     log |-> <<>>, outcome |-> NoResult,
     url0 |-> [params |-> {}], arg0 |-> EmptyOptions, glob0 |-> EmptyOptions]

\* One attempt in a call's log: what became of it (kind "threw": the build threw;
\* "pending": handed to the transport; "response", "fault", "abort": how the
\* transport settled it), the status received and the attempt's result.
Attempt(kind, status, res) == [kind |-> kind, status |-> status, res |-> res]

Settled(cr) == cr.pc \in {"resolved", "rejected"}

\* Mutant: the request is built before the new signal is put into the options.
DoReqSignalAfterBuild(c, cr, heap, uobj, tm, global, browser, userAgent) ==
    LET id == <<c, cr.attempts + 1>>
        arm == ArmsTimeout(cr.timeout)
        heap1 == IF arm THEN [heap EXCEPT ![cr.opt].signal = id] ELSE heap
        tm1 == IF arm THEN [tm EXCEPT !.pending = @ \cup {id}] ELSE tm
        cr1 == [cr EXCEPT !.attempts = id[2],
                          !.timeoutId = IF arm THEN id ELSE @]
        b == CreateRequest(cr.url, MergeOptions(global, heap[cr.opt]), uobj,
                           browser, userAgent)
    IN  [call |-> IF b.threw
                  THEN [cr1 EXCEPT !.pc = "attemptDone", !.req = NoRequest,
                                   !.log = Append(@, Attempt("threw", 0, Failure(b.err)))]
                  ELSE [cr1 EXCEPT !.pc = "inflight", !.req = b.request,
                                   !.log = Append(@, Attempt("pending", 0, NoResult))],
         optObj |-> heap1, urlObj |-> b.urlObj, timers |-> tm1]

(***************************************************************************)
(* doReq up to its call of fetch: arm the timeout, build the request, hand *)
(* it to the transport.  cr is the call, heap the options heap, uobj the   *)
(* caller's URL object, tm the timers.                                     *)
(***************************************************************************)
DoReq(c, cr, heap, uobj, tm, global, browser, userAgent) ==
    LET id == <<c, cr.attempts + 1>>
        arm == ArmsTimeout(cr.timeout)
        heap1 == IF arm THEN [heap EXCEPT ![cr.opt].signal = id] ELSE heap
        tm1 == IF arm THEN [tm EXCEPT !.pending = @ \cup {id}] ELSE tm
        cr1 == [cr EXCEPT !.attempts = id[2],
                          !.timeoutId = IF arm THEN id ELSE @]
        b == CreateRequest(cr.url, MergeOptions(global, heap1[cr.opt]), uobj,
                           browser, userAgent)
    IN  [call |-> IF b.threw
                  THEN [cr1 EXCEPT !.pc = "attemptDone", !.req = NoRequest,
                                   !.log = Append(@, Attempt("threw", 0, Failure(b.err)))]
                  ELSE [cr1 EXCEPT !.pc = "inflight", !.req = b.request,
                                   !.log = Append(@, Attempt("pending", 0, NoResult))],
         optObj |-> heap1, urlObj |-> b.urlObj, timers |-> tm1]

\* request(url, options) up to its first await
StartRequest(c, via, url, obj, heap) ==
    LET options == MergeOptions(GlobalLayer(via, globalOptions), heap[obj])
        timeout == ResolveTimeout(options)
        maxRetry == ResolveMaxRetry(options)
        cr == [IdleCall EXCEPT !.via = via, !.url = url, !.opt = obj,
                               !.timeout = timeout, !.maxRetry = maxRetry,
                               !.counter = IF Retrying(maxRetry) THEN 1 ELSE 0,
                               !.url0 = IF url = "obj" THEN urlObj ELSE ParseUrl(url),
                               !.arg0 = heap[obj], !.glob0 = globalOptions]
        r == DoReq(c, cr, heap, urlObj, timers, GlobalLayer(via, globalOptions),
                   isBrowser, defaultUserAgent)
    IN  /\ call' = [call EXCEPT ![c] = r.call]
        /\ optObj' = r.optObj
        /\ urlObj' = r.urlObj
        /\ timers' = r.timers
        /\ UNCHANGED <<isBrowser, defaultUserAgent, defaultResponseTransformer,
                       globalOptions, slots, abortedSignals, clientVars, loggerVars>>

CanStart(c) ==
    /\ c \in slots
    /\ call[c].pc = "idle"
    /\ \A d \in Calls : d < c => call[d].pc # "idle"

\* Http.request(url, options) and Http.request(url)
Request(c, url, withOptions) ==
    /\ CanStart(c)
    /\ IF withOptions
       THEN StartRequest(c, "request", url, 0, optObj)
       ELSE StartRequest(c, "request", url, c,
                         [optObj EXCEPT ![c] = DefaultRequestOptions])

\* Http.get(url, options)
Get(c, url) ==
    /\ CanStart(c)
    /\ StartRequest(c, "get", url, c,
                    [optObj EXCEPT ![c] = SpreadMethod("GET", optObj[0])])

\* Http.post(url, options)
Post(c, url) ==
    /\ CanStart(c)
    /\ StartRequest(c, "post", url, c,
                    [optObj EXCEPT ![c] = SpreadMethod("POST", optObj[0])])

\* HttpClient: request(url, options)
ClientRequest(c, url) ==
    /\ CanStart(c)
    /\ StartRequest(c, "client", url, c,
                    [optObj EXCEPT ![c] = ClientOptions(optObj[0], jar, CanonicalDomain(url))])

\* The attempt's chain has run: r is its result, kind/status what the transport did.
AttemptDone(c, r, kind, status) ==
    LET cr == call[c]
    IN  /\ call' = [call EXCEPT ![c] =
                      [cr EXCEPT !.pc = "attemptDone",
                                 !.log = [@ EXCEPT ![Len(@)] = Attempt(kind, status, r)]]]
        /\ timers' = ClearTimeout(timers, cr.timeoutId)
        /\ UNCHANGED <<isBrowser, defaultUserAgent, defaultResponseTransformer,
                       globalOptions, optObj, urlObj, slots, abortedSignals,
                       serverCookies, loggerVars>>

\* The transport resolves with a response.
FetchRespond(c, status, setCookie) ==
    /\ call[c].pc = "inflight"
    /\ call[c].req.signal \notin timers.fired \cup abortedSignals
    /\ LET res == ResponseWith(status, <<c, call[c].attempts>>, setCookie)
           options == MergeOptions(GlobalLayer(call[c].via, globalOptions),
                                   optObj[call[c].opt])
           domain == CanonicalDomain(call[c].url)
           wrapped == call[c].via = "client" /\ ResponseOk(res)
           w == WrappedTransformer(res, options, defaultResponseTransformer, jar, domain)
           r == IF wrapped THEN w.result
                ELSE ThenHandler(res, options, defaultResponseTransformer)
       IN  /\ AttemptDone(c, IF r.ok THEN r
                             ELSE Failure(CatchHandler(r.err, call[c].timeout)),
                          "response", status)
           /\ jar' = IF wrapped THEN w.jar ELSE jar
           /\ cookieLog' = IF wrapped
                           THEN Append(cookieLog, StoreEvent(c, domain, setCookie))
                           ELSE cookieLog

\* The transport rejects with an error of its own.
FetchFault(c) ==
    /\ call[c].pc = "inflight"
    /\ call[c].req.signal \notin timers.fired \cup abortedSignals
    /\ AttemptDone(c, Failure(CatchHandler(TransportError(<<c, call[c].attempts>>),
                                           call[c].timeout)),
                   "fault", 0)
    /\ UNCHANGED <<jar, cookieLog>>

\* setTimeout's callback: controller.abort()
TimerFire(id) ==
    /\ id \in timers.pending
    /\ timers' = [timers EXCEPT !.pending = @ \ {id}, !.fired = @ \cup {id}]
    /\ UNCHANGED <<isBrowser, defaultUserAgent, defaultResponseTransformer,
                   globalOptions, optObj, urlObj, call, slots, abortedSignals,
                   clientVars, loggerVars>>

\* The transport rejects because the request's signal is aborted.
FetchAbort(c) ==
    /\ call[c].pc = "inflight"
    /\ call[c].req.signal \in timers.fired \cup abortedSignals
    /\ AttemptDone(c, Failure(CatchHandler(AbortError, call[c].timeout)), "abort", 0)
    /\ UNCHANGED <<jar, cookieLog>>

\* The caller aborts the controller whose signal it passed in its options.
CallerAbort ==
    /\ CallerSignal \notin abortedSignals
    /\ \E c \in Calls : call[c].arg0.signal = CallerSignal
    /\ abortedSignals' = abortedSignals \cup {CallerSignal}
    /\ UNCHANGED <<isBrowser, defaultUserAgent, defaultResponseTransformer,
                   globalOptions, optObj, urlObj, timers, call, slots, clientVars,
                   loggerVars>>

\* request after `await doReq()`: return, rethrow, or go round the retry loop.
Resume(c) ==
    LET cr == call[c]
        r == cr.log[Len(cr.log)].res
        domain == CanonicalDomain(cr.url)
        extracted == IF cr.via = "client" /\ ~r.ok
                     THEN ExtractOnError(r.err, jar, domain)
                     ELSE jar
        Finish == /\ call' = [call EXCEPT ![c] =
                                [cr EXCEPT !.pc = IF r.ok THEN "resolved" ELSE "rejected",
                                           !.outcome = r]]
                  /\ jar' = extracted
                  /\ cookieLog' =
                        IF cr.via = "client" /\ ~r.ok /\ r.err.name = "RequestError"
                           /\ r.err.response # NoResponse
                        THEN Append(cookieLog,
                                    StoreEvent(c, domain, r.err.response.setCookie))
                        ELSE cookieLog
                  /\ UNCHANGED <<isBrowser, defaultUserAgent, defaultResponseTransformer,
                                 globalOptions, optObj, urlObj, timers, slots, abortedSignals,
                                 serverCookies, loggerVars>>
    IN  /\ cr.pc = "attemptDone"
        /\ IF Retrying(cr.maxRetry) /\ ~r.ok /\ ~CounterExceeds(cr.counter, cr.maxRetry)
           THEN LET n == DoReq(c, [cr EXCEPT !.counter = @ + 1], optObj, urlObj, timers,
                               GlobalLayer(cr.via, globalOptions), isBrowser,
                               defaultUserAgent)
                IN  /\ call' = [call EXCEPT ![c] = n.call]
                    /\ optObj' = n.optObj
                    /\ urlObj' = n.urlObj
                    /\ timers' = n.timers
                    /\ UNCHANGED <<isBrowser, defaultUserAgent,
                                   defaultResponseTransformer, globalOptions, slots, abortedSignals,
                                   clientVars, loggerVars>>
           ELSE Finish

\* Http.setDefaultUserAgent(userAgent)
SetDefaultUserAgent(userAgent) ==
    /\ userAgent # defaultUserAgent
    /\ defaultUserAgent' = userAgent
    /\ UNCHANGED <<isBrowser, defaultResponseTransformer, globalOptions, optObj,
                   urlObj, timers, call, slots, abortedSignals, clientVars, loggerVars>>

\* Http.setDefaultResponseTransformer(transformer)
SetDefaultResponseTransformer(transformer) ==
    /\ transformer # defaultResponseTransformer
    /\ defaultResponseTransformer' = transformer
    /\ UNCHANGED <<isBrowser, defaultUserAgent, globalOptions, optObj, urlObj,
                   timers, call, slots, abortedSignals, clientVars, loggerVars>>

Next ==
    \/ \E c \in Calls, url \in UrlArgs, withOptions \in BOOLEAN : Request(c, url, withOptions)
    \/ \E c \in Calls, url \in UrlArgs : Get(c, url)
    \/ \E c \in Calls, url \in UrlArgs : Post(c, url)
    \/ \E c \in Calls, status \in Statuses, setCookie \in serverCookies :
          FetchRespond(c, status, setCookie)
    \/ \E c \in Calls : FetchFault(c)
    \/ \E c \in Calls : FetchAbort(c)
    \/ \E c \in Calls : Resume(c)
    \/ \E id \in timers.pending : TimerFire(id)
    \/ \E userAgent \in UserAgents : SetDefaultUserAgent(userAgent)
    \/ \E transformer \in Transformers : SetDefaultResponseTransformer(transformer)

NoOp == [op |-> "none", target |-> 0, val |-> UndefNum]
\* An extra object (ExtraLogData): its module and error, "undef" when it has none.
ExtraLogData(module, error) == [module |-> module, error |-> error]
NoExtra == ExtraLogData(Undef, Undef)

(***************************************************************************)
(* Initial states: the options bag and URL object the caller holds.        *)
(***************************************************************************)
MaxRetryValues ==
    {UndefNum, IntNum(0), IntNum(0 - 1), FracNum(1), HugeNum}
        \cup {IntNum(n) : n \in 1..MaxRetryBound}
TimeoutValues == {UndefNum, IntNum(0), IntNum(100)}

\* Options that exercise the executor: timeout, retry, timestamp.
ExecutorOptions ==
    {[EmptyOptions EXCEPT !.appendTimestamp = a, !.timeout = t, !.maxRetry = m] :
        a \in {Undef, "true"}, t \in TimeoutValues, m \in MaxRetryValues}

UrlObjects == {[params |-> {}], [params |-> {<<"t", "existing">>}]}

InitHttp(callerOptions, globals, browsers, urlObjects, useSlots, servers) ==
    /\ isBrowser \in browsers
    /\ defaultUserAgent = "Chrome/128"
    /\ defaultResponseTransformer = "text"
    /\ globalOptions \in globals
    /\ optObj \in {[o \in ObjIds |-> IF o = 0 THEN co ELSE EmptyOptions] :
                     co \in callerOptions}
    /\ urlObj \in urlObjects
    /\ timers = [pending |-> {}, fired |-> {}, cleared |-> {}]
    /\ call = [c \in Calls |-> IdleCall]
    /\ slots = useSlots
    /\ abortedSignals = {}
    /\ jar = [d \in Domains |-> {}]
    /\ cookieLog = <<>>
    /\ serverCookies = servers

\* no logger created yet; the transports and the extra object the caller has made
InitLoggers(transportLists, extras) ==
    /\ loggers = <<>>
    /\ levelDelegations = <<>>
    /\ lastOp = NoOp
    /\ transports \in transportLists
    /\ handled = <<>>
    /\ extraObj \in extras

InitEnv(callerOptions, globals, browsers, urlObjects, useSlots, servers) ==
    /\ InitHttp(callerOptions, globals, browsers, urlObjects, useSlots, servers)
    /\ InitLoggers({<<>>}, {NoExtra})

\* the same, with servers that send no Set-Cookie header
InitWith(callerOptions, globals, browsers, urlObjects, useSlots) ==
    InitEnv(callerOptions, globals, browsers, urlObjects, useSlots, {{}})

Init == InitWith(ExecutorOptions, {EmptyOptions}, {FALSE}, UrlObjects, {1})

Spec == Init /\ [][Next]_vars

\* Options that exercise the builder's timestamp and the option layers.
TimestampOptions ==
    {[EmptyOptions EXCEPT !.appendTimestamp = a, !.timestampParamName = n,
                          !.timeout = t, !.maxRetry = m] :
        a \in {Undef, "true", "false"}, n \in {Undef, "t", "ts"},
        t \in {UndefNum, IntNum(0)}, m \in {UndefNum, IntNum(1)}}

\* Options that exercise the builder's method and headers.
CallerHeaders ==
    {{}, {<<"user-agent", "Caller-Agent">>}, {<<"User-Agent", "Caller-Agent">>},
     {<<"USER-AGENT", "Caller-Agent">>}, {<<"X-Global", "value">>}}
HeaderOptions ==
    {[EmptyOptions EXCEPT !.useDefaultUserAgent = u, !.headers = h, !.method = m] :
        u \in {Undef, "true", "false"}, h \in CallerHeaders,
        m \in {Undef, "GET", "POST"}}
        \cup {[EmptyOptions EXCEPT !.responseTransformer = "custom"]}

\* What callers have put into Http.globalOptions.
GlobalOptionsValues ==
    {EmptyOptions,
     [EmptyOptions EXCEPT !.timeout = IntNum(50)],
     [EmptyOptions EXCEPT !.maxRetry = IntNum(1)],
     [EmptyOptions EXCEPT !.appendTimestamp = "true"],
     [EmptyOptions EXCEPT !.timestampParamName = "ts"],
     [EmptyOptions EXCEPT !.timeout = IntNum(50), !.maxRetry = IntNum(1),
                          !.appendTimestamp = "true", !.timestampParamName = "ts"]}

InitBuild ==
    \/ InitWith(TimestampOptions, GlobalOptionsValues, {FALSE}, UrlObjects, {1})
    \/ InitWith(HeaderOptions, {EmptyOptions}, BOOLEAN, {[params |-> {}]}, {1})

SpecBuild == InitBuild /\ [][Next]_vars

(***************************************************************************)
(* One call under every kind of timeout, with or without a signal of the   *)
(* caller's own.                                                           *)
(***************************************************************************)
TimeoutOptions ==
    {[EmptyOptions EXCEPT !.timeout = t, !.maxRetry = m, !.signal = sig] :
        t \in {UndefNum, IntNum(0), IntNum(0 - 1), FracNum(100), HugeNum, IntNum(100)},
        m \in {UndefNum, IntNum(1)},
        sig \in {NoSignal, CallerSignal}}
TimeoutUrls == {"https://example.com", "not a url"}

InitTimeout ==
    InitWith(TimeoutOptions, {EmptyOptions}, {FALSE}, {[params |-> {}]}, {1})

NextTimeout ==
    \/ \E c \in Calls, url \in TimeoutUrls, withOptions \in BOOLEAN :
          Request(c, url, withOptions)
    \/ \E c \in Calls, url \in TimeoutUrls : Get(c, url)
    \/ \E c \in Calls, status \in Statuses, setCookie \in serverCookies :
          FetchRespond(c, status, setCookie)
    \/ \E c \in Calls : FetchFault(c)
    \/ \E c \in Calls : FetchAbort(c)
    \/ \E c \in Calls : Resume(c)
    \/ \E id \in timers.pending : TimerFire(id)
    \/ CallerAbort

SpecTimeout == InitTimeout /\ [][NextTimeout]_vars

(***************************************************************************)
(* Two concurrent calls of the facade, given the same options object.      *)
(***************************************************************************)
ConcurrentOptions ==
    {[EmptyOptions EXCEPT !.timeout = t, !.maxRetry = m] :
        t \in {UndefNum, IntNum(0), IntNum(100)}, m \in {UndefNum, IntNum(1)}}
ConcurrentUrls == {"https://example.com", "not a url"}

InitConcurrent ==
    InitWith(ConcurrentOptions, {EmptyOptions}, {FALSE}, {[params |-> {}]}, {1, 2})

NextConcurrent ==
    \/ \E c \in Calls, url \in ConcurrentUrls, withOptions \in BOOLEAN :
          Request(c, url, withOptions)
    \/ \E c \in Calls, url \in ConcurrentUrls : Get(c, url)
    \/ \E c \in Calls, status \in Statuses, setCookie \in serverCookies :
          FetchRespond(c, status, setCookie)
    \/ \E c \in Calls : FetchFault(c)
    \/ \E c \in Calls : FetchAbort(c)
    \/ \E c \in Calls : Resume(c)
    \/ \E id \in timers.pending : TimerFire(id)

SpecConcurrent == InitConcurrent /\ [][NextConcurrent]_vars

(***************************************************************************)
(* Two concurrent calls on one HttpClient and on the facade, against       *)
(* servers that set cookies.                                               *)
(***************************************************************************)
ClientUrls == {"https://example.com", "https://other.test"}
ClientStatuses == {200, 500}
\* the Set-Cookie headers a response carries
SetCookieValues ==
    {{}, {Cookie("sid", "a")}, {Cookie("sid", "b"), Cookie("lang", "en")}}
\* what the caller passes: nothing, a Cookie header of its own, a retry, a
\* transformer that throws
ClientCallerOptions ==
    {[EmptyOptions EXCEPT !.timeout = IntNum(0), !.headers = h] :
        h \in {{}, {<<"Cookie", "sid=manual">>}, {<<"cookie", "theme=dark">>}}}
    \cup {[EmptyOptions EXCEPT !.timeout = IntNum(0), !.maxRetry = IntNum(1)],
          [EmptyOptions EXCEPT !.timeout = IntNum(0), !.responseTransformer = "failing"]}
ClientGlobalOptions ==
    {EmptyOptions,
     [EmptyOptions EXCEPT !.maxRetry = IntNum(1), !.appendTimestamp = "true",
                          !.timestampParamName = "ts",
                          !.headers = {<<"X-Global", "value">>}]}

InitClient ==
    InitEnv(ClientCallerOptions, ClientGlobalOptions, {FALSE}, {[params |-> {}]},
            {1, 2}, SetCookieValues)

NextClient ==
    \/ \E c \in Calls, url \in ClientUrls : ClientRequest(c, url)
    \/ \E c \in Calls, url \in ClientUrls : Request(c, url, TRUE)
    \/ \E c \in Calls, status \in ClientStatuses, setCookie \in serverCookies :
          FetchRespond(c, status, setCookie)
    \/ \E c \in Calls : FetchFault(c)
    \/ \E c \in Calls : Resume(c)

SpecClient == InitClient /\ [][NextClient]_vars

\* The client's calls next to all three calls of the facade, under a
\* globalOptions that callers have filled.
LayerCallerOptions ==
    {[EmptyOptions EXCEPT !.timeout = IntNum(0), !.headers = h, !.maxRetry = m] :
        h \in {{}, {<<"cookie", "theme=dark">>}}, m \in {UndefNum, IntNum(0)}}

InitLayers ==
    InitEnv(LayerCallerOptions, ClientGlobalOptions, {FALSE}, {[params |-> {}]},
            {1, 2}, {{}})

NextLayers ==
    \/ \E c \in Calls, url \in ClientUrls : ClientRequest(c, url)
    \/ \E c \in Calls, url \in ClientUrls, withOptions \in BOOLEAN :
          Request(c, url, withOptions)
    \/ \E c \in Calls, url \in ClientUrls : Get(c, url)
    \/ \E c \in Calls, url \in ClientUrls : Post(c, url)
    \/ \E c \in Calls, status \in ClientStatuses, setCookie \in serverCookies :
          FetchRespond(c, status, setCookie)
    \/ \E c \in Calls : FetchFault(c)
    \/ \E c \in Calls : FetchAbort(c)
    \/ \E c \in Calls : Resume(c)
    \/ \E id \in timers.pending : TimerFire(id)

SpecLayers == InitLayers /\ [][NextLayers]_vars

(***************************************************************************)
(* The logger (logger/index.ts): LoggerImpl objects, each holding the      *)
(* options it was constructed with and a LevelDelegation object that holds *)
(* its level.  A level is a number; an absent level option is "undef".     *)
(***************************************************************************)
\* enum LogLevel
LogLevel == [FATAL |-> 20, WARN |-> 40, INFO |-> 60, DEBUG |-> 80, TRACE |-> 100]
\* the levels callers pass and assign
LevelValues == {IntNum(LogLevel.INFO), IntNum(LogLevel.DEBUG)}
\* the level option of a LoggerOptions
LevelOptions == {UndefNum} \cup LevelValues

\* { ...this.options, ...options }
SpreadLoggerOptions(mine, given) ==
    [level |-> OrDefaultNum(given.level, mine.level), transports |-> mine.transports]

\* Mutant: only an explicit syncLevel of true shares the level.
SyncsLevelExplicit(syncLevel) == syncLevel = "true"

\* options.syncLevel || options.syncLevel === undefined
SyncsLevel(syncLevel) == syncLevel = "true" \/ syncLevel = Undef

\* new LoggerImpl(options, levelDelegation): delegation 0 is "none passed".  The
\* logger also records where it came from: the logger with() was called on (0
\* for createLogger) and the arguments with() was given.
NewLoggerImpl(ls, ds, options, delegation, parent, given, syncLevel) ==
    LET made == delegation = 0
        ds1 == IF made
               THEN Append(ds, IF options.level.t = "undef" THEN IntNum(LogLevel.INFO)
                               ELSE options.level)
               ELSE ds
    IN  [loggers |-> Append(ls, [options |-> options,
                                 levelDelegation |-> IF made THEN Len(ds1) ELSE delegation,
                                 parent |-> parent, given |-> given,
                                 syncLevel |-> syncLevel]),
         levelDelegations |-> ds1]

\* get level()
Level(ls, ds, i) == ds[ls[i].levelDelegation]

\* createLogger(options)
CreateLogger(level) ==
    /\ Len(loggers) < MaxLoggers
    /\ LET n == NewLoggerImpl(loggers, levelDelegations,
                              [level |-> level,
                               transports |-> [k \in 1..Len(transports) |-> k]],
                              0, 0, [level |-> level], Undef)
       IN  /\ loggers' = n.loggers
           /\ levelDelegations' = n.levelDelegations
    /\ lastOp' = [op |-> "create", target |-> Len(loggers) + 1, val |-> level]
    /\ UNCHANGED <<isBrowser, defaultUserAgent, defaultResponseTransformer,
                   globalOptions, optObj, urlObj, timers, call, slots,
                   abortedSignals, clientVars, transports, handled, extraObj>>

\* logger.with(options)
With(i, level, syncLevel) ==
    /\ i \in 1..Len(loggers)
    /\ Len(loggers) < MaxLoggers
    /\ LET given == [level |-> level]
           delegation == IF SyncsLevel(syncLevel) THEN loggers[i].levelDelegation ELSE 0
           n == NewLoggerImpl(loggers, levelDelegations,
                              SpreadLoggerOptions(loggers[i].options, given),
                              delegation, i, given, syncLevel)
       IN  /\ loggers' = n.loggers
           /\ levelDelegations' = n.levelDelegations
    /\ lastOp' = [op |-> "with", target |-> Len(loggers) + 1, val |-> level]
    /\ UNCHANGED <<isBrowser, defaultUserAgent, defaultResponseTransformer,
                   globalOptions, optObj, urlObj, timers, call, slots,
                   abortedSignals, clientVars, transports, handled, extraObj>>

\* logger.level = val
SetLevel(i, val) ==
    /\ i \in 1..Len(loggers)
    /\ levelDelegations' = [levelDelegations EXCEPT ![loggers[i].levelDelegation] = val]
    /\ lastOp' = [op |-> "set", target |-> i, val |-> val]
    /\ UNCHANGED <<isBrowser, defaultUserAgent, defaultResponseTransformer,
                   globalOptions, optObj, urlObj, timers, call, slots,
                   abortedSignals, clientVars, loggers, transports, handled, extraObj>>

InitLogger == InitWith({EmptyOptions}, {EmptyOptions}, {FALSE}, {[params |-> {}]}, {})

NextLogger ==
    \/ \E level \in LevelOptions : CreateLogger(level)
    \/ \E i \in 1..MaxLoggers, level \in LevelOptions,
          syncLevel \in {Undef, "true", "false"} : With(i, level, syncLevel)
    \/ \E i \in 1..MaxLoggers, val \in LevelValues : SetLevel(i, val)

SpecLogger == InitLogger /\ [][NextLogger]_vars

(***************************************************************************)
(* LoggerImpl.log: filter the transports by level, build one LogItem, hand *)
(* it to each transport left.                                              *)
(***************************************************************************)
\* A Transport object: its level, "undef" when it has none.
Transport(level) == [level |-> level]
\* new LogItem(DateTime.now(), level, msg, module, extra, error)
LogItem(level, msg, module, extra, error) ==
    [level |-> level, msg |-> msg, module |-> module, extra |-> extra, error |-> error]

\* Mutant: the logger's level decides for every transport.
CheckLevelOfLogger(transportLevel, loggerLevel) == loggerLevel

\* typeof it.level === 'number' ? it.level : this.level
CheckLevel(transportLevel, loggerLevel) ==
    IF transportLevel.t = "undef" THEN loggerLevel ELSE transportLevel

\* level <= checkLevel
LevelAtMost(level, checkLevel) == level.v <= checkLevel.v

\* logger.log(level, extraOrMsg, ...additionMsg): extraOrMsg is the caller's extra
\* object when withExtra, a string otherwise
Log(i, level, withExtra) ==
    /\ i \in 1..Len(loggers)
    /\ LET mine == Level(loggers, levelDelegations, i)
           kept == SelectSeq(loggers[i].options.transports,
                             LAMBDA t : LevelAtMost(level,
                                                    CheckLevel(transports[t].level, mine)))
           left == IF withExtra THEN NoExtra ELSE extraObj
           item == IF withExtra
                   THEN LogItem(level, "additionMsg", extraObj.module, "extraObj",
                                extraObj.error)
                   ELSE LogItem(level, "msg", Undef, Undef, Undef)
       IN  IF kept = <<>>
           THEN /\ handled' = <<>>
                /\ extraObj' = extraObj
           ELSE /\ handled' = [k \in 1..Len(kept) |-> [transport |-> kept[k], item |-> item]]
                /\ extraObj' = left
    /\ lastOp' = [op |-> "log", target |-> i, val |-> level]
    /\ UNCHANGED <<isBrowser, defaultUserAgent, defaultResponseTransformer,
                   globalOptions, optObj, urlObj, timers, call, slots,
                   abortedSignals, clientVars, loggers, levelDelegations, transports>>

\* the levels callers log at
LogLevels == {IntNum(LogLevel.FATAL), IntNum(LogLevel.INFO), IntNum(LogLevel.TRACE)}
\* the transports callers give their loggers
TransportLists ==
    {<<Transport(UndefNum)>>,
     <<Transport(IntNum(LogLevel.WARN)), Transport(UndefNum)>>,
     <<Transport(IntNum(LogLevel.TRACE)), Transport(IntNum(LogLevel.FATAL))>>}
ExtraObjects == {ExtraLogData("m", "e"), ExtraLogData("m", Undef), NoExtra}

InitLog ==
    /\ InitHttp({EmptyOptions}, {EmptyOptions}, {FALSE}, {[params |-> {}]}, {}, {{}})
    /\ InitLoggers(TransportLists, ExtraObjects)

NextLog ==
    \/ \E level \in LevelOptions : Len(loggers) < MaxLogLoggers /\ CreateLogger(level)
    \/ \E i \in 1..MaxLoggers, syncLevel \in {Undef, "false"} :
          Len(loggers) < MaxLogLoggers /\ With(i, UndefNum, syncLevel)
    \/ \E i \in 1..MaxLoggers, val \in LevelValues : SetLevel(i, val)
    \/ \E i \in 1..MaxLoggers, level \in LogLevels, withExtra \in BOOLEAN :
          Log(i, level, withExtra)

SpecLog == InitLog /\ [][NextLog]_vars

(***************************************************************************)
(* Vocabulary of the claims.                                               *)
(***************************************************************************)
\* a positive safe integer
PositiveSafeInt(x) == x.t = "int" /\ x.v > 0
\* the option as the call was given it: per-call value, else the global one
Given(cr, key) ==
    CASE key \in {"timeout", "maxRetry"} ->
           (IF cr.arg0[key].t # "undef" THEN cr.arg0[key] ELSE cr.glob0[key])
      [] key = "headers" ->
           (IF cr.arg0[key] # {} THEN cr.arg0[key] ELSE cr.glob0[key])
      [] OTHER ->
           (IF cr.arg0[key] # Undef THEN cr.arg0[key] ELSE cr.glob0[key])
\* the attempts of a call that reached the transport
Fetched(cr) == SelectSeq(cr.log, LAMBDA a : a.kind # "threw")
\* the errors a request build throws
ConfigurationErrors == {InvalidUrlError} \cup {ConflictError(n) : n \in {"t", "ts"}}

\* C1: with maxRetry = N a positive safe integer and a transport that fails every
\* attempt, a settled call has made exactly N + 1 transport attempts and is
\* rejected with the transport's error of the last attempt.
C1_AlwaysFailingTransport ==
    \A c \in Calls :
        LET cr == call[c]
            f == Fetched(cr)
        IN  (/\ Settled(cr)
             /\ PositiveSafeInt(cr.maxRetry)
             /\ Len(cr.log) >= 1 /\ cr.log[1].kind = "fault"
             /\ \A i \in 1..Len(f) : f[i].kind = "fault")
            => /\ Len(f) = cr.maxRetry.v + 1
               /\ cr.pc = "rejected"
               /\ cr.outcome.err = TransportError(<<c, cr.maxRetry.v + 1>>)

\* C2: with maxRetry = N a positive safe integer and a transport that fails its
\* first k <= N attempts and then succeeds, a settled call has made exactly k + 1
\* transport attempts and is resolved with the transformed value of the
\* successful response.
C2_FailsThenSucceeds ==
    \A c \in Calls :
        LET cr == call[c]
            f == Fetched(cr)
            k == Cardinality({i \in 1..Len(f) : f[i].kind = "fault"})
            Succeeded(a) == a.kind = "response" /\ a.status = 200
        IN  (/\ Settled(cr)
             /\ PositiveSafeInt(cr.maxRetry)
             /\ Len(cr.log) >= 1 /\ cr.log[1].kind # "threw"
             /\ k <= cr.maxRetry.v
             /\ \A i \in 1..Len(f) : f[i].kind = "fault" \/ Succeeded(f[i]))
            => /\ Len(f) = k + 1
               /\ Succeeded(f[k + 1])
               /\ cr.pc = "resolved"
               /\ cr.outcome.val.of = <<c, Len(cr.log)>>
               /\ cr.outcome.val.by \in Transformers

\* C3: when maxRetry is absent, 0, negative or no safe integer, the call makes
\* exactly one attempt, and that attempt's outcome is the call's.
C3_SingleAttempt ==
    \A c \in Calls :
        LET cr == call[c]
        IN  (cr.pc # "idle" /\ ~PositiveSafeInt(Given(cr, "maxRetry")))
            => /\ cr.attempts = 1
               /\ Len(cr.log) = 1
               /\ Settled(cr) => /\ cr.outcome = cr.log[1].res
                                 /\ cr.pc = IF cr.log[1].res.ok THEN "resolved"
                                            ELSE "rejected"

\* C3 witness: a call with maxRetry 1.5 has settled, rejected after one fetch.
C3_Witness ==
    \E c \in Calls :
        /\ Settled(call[c])
        /\ Given(call[c], "maxRetry") = FracNum(1)
        /\ call[c].log[1].kind = "fault"

\* C4: a call whose request build throws a configuration error is rejected with
\* it after that single build attempt, and never calls the transport.
C4_ConfigurationErrorNotRetried ==
    \A c \in Calls :
        LET cr == call[c]
        IN  (/\ Settled(cr)
             /\ cr.log[1].kind = "threw"
             /\ cr.log[1].res.err \in ConfigurationErrors)
            => /\ cr.attempts = 1
               /\ Fetched(cr) = <<>>
               /\ cr.pc = "rejected"
               /\ cr.outcome.err = cr.log[1].res.err

\* C5: a call with appendTimestamp true whose url already has the parameter named
\* timestampParamName (default "t") never reaches the transport: every attempt
\* throws the timestamp-conflict error, which is what the call is rejected with.
C5_TimestampConflict ==
    \A c \in Calls :
        LET cr == call[c]
            name == IF Given(cr, "timestampParamName") = Undef THEN "t"
                    ELSE Given(cr, "timestampParamName")
        IN  (/\ cr.pc # "idle"
             /\ Given(cr, "appendTimestamp") = "true"
             /\ \E p \in cr.url0.params : p[1] = name)
            => /\ cr.pc \in {"attemptDone", "rejected"}
               /\ \A i \in 1..Len(cr.log) :
                     /\ cr.log[i].kind = "threw"
                     /\ cr.log[i].res.err = ConflictError(name)
               /\ Settled(cr) => cr.outcome.err = ConflictError(name)

\* C5 witness: a call on a url that has the custom parameter "ts", with
\* appendTimestamp true and timestampParamName "ts", has been rejected.
C5_Witness ==
    \E c \in Calls :
        /\ call[c].pc = "rejected"
        /\ Given(call[c], "appendTimestamp") = "true"
        /\ Given(call[c], "timestampParamName") = "ts"
        /\ <<"ts", "existing">> \in call[c].url0.params

\* C6: an attempt the timeout aborted fails with a RequestError whose message
\* holds the timeout T, and which carries the request and no response.
C6_TimeoutError ==
    \A c \in Calls :
        \A i \in 1..Len(call[c].log) :
            LET a == call[c].log[i]
            IN  (a.kind = "abort" /\ PositiveSafeInt(call[c].timeout))
                => /\ ~a.res.ok
                   /\ a.res.err.name = "RequestError"
                   /\ a.res.err.message.num = call[c].timeout
                   /\ a.res.err.response = NoResponse
                   /\ "request" \in DOMAIN a.res.err

\* C7: a response with a non-success status fails the attempt with a
\* RequestError carrying the request and that response, without running the
\* transformer; for 500-599 the message has the transient-fluctuation wording,
\* for any other status the literal status code.
C7_StatusError ==
    \A c \in Calls :
        \A i \in 1..Len(call[c].log) :
            LET a == call[c].log[i]
            IN  (a.kind = "response" /\ ~(a.status \in 200..299))
                => /\ ~a.res.ok
                   /\ a.res.val = NoValue
                   /\ a.res.err.name = "RequestError"
                   /\ a.res.err.response = Response(a.status, <<c, i>>)
                   /\ "request" \in DOMAIN a.res.err
                   /\ a.status \in 500..599
                        => a.res.err.message.text = "transientFluctuation"
                   /\ ~(a.status \in 500..599)
                        => a.res.err.message.num = IntNum(a.status)

\* the value of the first layer that sets a number: per call, global, built in
LayeredNum(perCall, global, builtIn) ==
    IF perCall.t # "undef" THEN perCall
    ELSE IF global.t # "undef" THEN global ELSE builtIn
\* the same for a string-valued option
LayeredStr(perCall, global, builtIn) ==
    IF perCall # Undef THEN perCall
    ELSE IF global # Undef THEN global ELSE builtIn

C9_MethodFixed ==
    \A c \in Calls :
        call[c].req.built
        => /\ call[c].via = "get" => call[c].req.method = "GET"
           /\ call[c].via = "post" => call[c].req.method = "POST"

UserAgentSpellings == {"user-agent", "User-Agent", "USER-AGENT"}
\* the user-agent header the caller supplied, under any letter casing
CallerUserAgent(cr) ==
    {p[2] : p \in {q \in Given(cr, "headers") : q[1] \in UserAgentSpellings}}

\* C10: a request just built carries the caller's user-agent header if the caller
\* supplied one under any casing; otherwise the current default user-agent if
\* useDefaultUserAgent resolves true (default: not in a browser); otherwise none.
C10_UserAgent ==
    [][\A c \in Calls :
          (call'[c].attempts # call[c].attempts /\ call'[c].req.built)
          => LET cr == call'[c]
                 use == IF Given(cr, "useDefaultUserAgent") = Undef THEN ~isBrowser
                        ELSE Given(cr, "useDefaultUserAgent") = "true"
             IN  HeadersGet(cr.req.headers, "user-agent")
                   = IF CallerUserAgent(cr) # {}
                     THEN CHOOSE v \in CallerUserAgent(cr) : TRUE
                     ELSE IF use THEN defaultUserAgent ELSE Undef]_vars

\* C10 witness: a request was built for a caller who supplied "User-Agent" and
\* asked for the default user-agent; it carries the caller's value.
C10_Witness ==
    \E c \in Calls :
        /\ call[c].req.built
        /\ call[c].arg0.headers = {<<"User-Agent", "Caller-Agent">>}
        /\ call[c].arg0.useDefaultUserAgent = "true"
        /\ HeadersGet(call[c].req.headers, "user-agent") = "Caller-Agent"

\* C11: setDefaultUserAgent and setDefaultResponseTransformer change their own
\* default and nothing else; from then on a request built for a call that gives
\* no user-agent of its own carries the default user-agent last set, and a
\* response of a call that gives no transformer of its own is transformed by the
\* default transformer last set.
C11_DefaultsTakeEffect ==
    [][/\ defaultUserAgent' # defaultUserAgent
            => UNCHANGED <<isBrowser, defaultResponseTransformer, globalOptions, optObj,
                           urlObj, timers, call, slots, abortedSignals, clientVars, loggerVars>>
       /\ defaultResponseTransformer' # defaultResponseTransformer
            => UNCHANGED <<isBrowser, defaultUserAgent, globalOptions, optObj, urlObj,
                           timers, call, slots, abortedSignals, clientVars, loggerVars>>
       /\ \A c \in Calls :
            LET cr == call'[c]
                a == cr.log[Len(cr.log)]
            IN  /\ (/\ cr.attempts # call[c].attempts
                    /\ cr.req.built
                    /\ CallerUserAgent(cr) = {}
                    /\ Given(cr, "useDefaultUserAgent") = Undef
                    /\ ~isBrowser)
                   => HeadersGet(cr.req.headers, "user-agent") = defaultUserAgent
                /\ (/\ call[c].pc = "inflight"
                    /\ cr.pc = "attemptDone"
                    /\ a.kind = "response"
                    /\ a.res.ok
                    /\ Given(cr, "responseTransformer") = Undef)
                   => a.res.val.by = defaultResponseTransformer]_vars

\* C11 witness: after both setters were called, a call without options of its
\* own was resolved: its request carries the new user-agent and its value was
\* made by the new transformer.
C11_Witness ==
    \E c \in Calls :
        /\ call[c].pc = "resolved"
        /\ defaultUserAgent = "Custom-Agent/1.0"
        /\ defaultResponseTransformer = "json"
        /\ HeadersGet(call[c].req.headers, "user-agent") = "Custom-Agent/1.0"
        /\ call[c].outcome.val.by = "json"

\* the attempts of a call that are with the transport
InFlight(cr) == {i \in 1..Len(cr.log) : cr.log[i].kind = "pending"}

\* C15: within one call, attempt n + 1 starts only once attempt n has fully
\* settled: its transport result, status classification and transformer are
\* done and its timer is cleaned up; at most one attempt of a call is in flight.
C15_SequentialAttempts ==
    [][\A c \in Calls :
          /\ (call[c].attempts >= 1 /\ call'[c].attempts > call[c].attempts)
             => /\ call'[c].attempts = call[c].attempts + 1
                /\ call[c].log[call[c].attempts].kind # "pending"
                /\ <<c, call[c].attempts>> \notin timers.pending
          /\ Cardinality(InFlight(call'[c])) <= 1]_vars

\* the ids of all timers and signals created so far
CreatedSignals == timers.pending \cup timers.fired \cup timers.cleared

\* C16: every attempt made under a timeout is built with a signal created for
\* that attempt alone, one no earlier attempt and no other call holds, also when
\* the calls share one options object; and an attempt is aborted only by the
\* timer of its own signal.
C16_OwnSignal ==
    [][\A c \in Calls :
          LET cr == call'[c]
          IN  /\ (/\ cr.attempts # call[c].attempts
                  /\ cr.req.built
                  /\ ArmsTimeout(cr.timeout))
                 => /\ cr.req.signal = <<c, cr.attempts>>
                    /\ cr.req.signal \notin CreatedSignals
                    /\ \A d \in Calls \ {c} : call'[d].req.signal # cr.req.signal
              /\ \A i \in 1..Len(cr.log) :
                    cr.log[i].kind = "abort" => <<c, i>> \in timers'.fired]_vars

\* C16 witness: two calls were given the same options object; the first attempt
\* of call 1 was aborted by its timer, and attempt 2 of call 1 and the attempt of
\* call 2 both got a response afterwards.
C16_Witness ==
    /\ call[1].opt = 0 /\ call[2].opt = 0
    /\ Len(call[1].log) = 2
    /\ call[1].log[1].kind = "abort"
    /\ call[1].log[2].kind = "response"
    /\ Len(call[2].log) = 1
    /\ call[2].log[1].kind = "response"
    /\ <<2, 1>> \in timers.cleared

\* The logger whose level logger i was created to follow: itself, unless it came
\* from with() with syncLevel true or omitted.
RECURSIVE SyncRoot(_, _)
SyncRoot(ls, i) ==
    IF ls[i].parent # 0 /\ ls[i].syncLevel \in {"true", Undef}
    THEN SyncRoot(ls, ls[i].parent)
    ELSE i
\* two loggers linked by with() calls that synchronise the level
Synced(ls, i, j) == SyncRoot(ls, i) = SyncRoot(ls, j)

\* C19: loggers linked by with() calls with syncLevel true or omitted always
\* report one level: an assignment through any of them is what all of them
\* report afterwards, and it leaves every logger outside that group, such as one
\* created with syncLevel false or its parent, at the level it had.
C19_LevelSync ==
    [][/\ \A i, j \in 1..Len(loggers') :
             Synced(loggers', i, j)
             => Level(loggers', levelDelegations', i) = Level(loggers', levelDelegations', j)
       /\ (lastOp' # lastOp /\ lastOp'.op = "set")
            => \A i \in 1..Len(loggers) :
                  Level(loggers', levelDelegations', i)
                    = IF Synced(loggers, i, lastOp'.target) THEN lastOp'.val
                      ELSE Level(loggers, levelDelegations, i)
       /\ (lastOp' # lastOp /\ lastOp'.op # "set")
            => \A i \in 1..Len(loggers) :
                  Level(loggers', levelDelegations', i) = Level(loggers, levelDelegations, i)
      ]_vars

\* C19 witness: logger 2 came from logger 1 with syncLevel omitted, logger 3 from
\* logger 2 with syncLevel false; DEBUG was then assigned through logger 2, so 1
\* and 2 report DEBUG and 3 still reports INFO.
C19_Witness ==
    /\ Len(loggers) = 3
    /\ loggers[2].parent = 1 /\ loggers[2].syncLevel = Undef
    /\ loggers[3].parent = 2 /\ loggers[3].syncLevel = "false"
    /\ lastOp = [op |-> "set", target |-> 2, val |-> IntNum(LogLevel.DEBUG)]
    /\ Level(loggers, levelDelegations, 1) = IntNum(LogLevel.DEBUG)
    /\ Level(loggers, levelDelegations, 2) = IntNum(LogLevel.DEBUG)
    /\ Level(loggers, levelDelegations, 3) = IntNum(LogLevel.INFO)

\* C20: a logger made by with({syncLevel: false}) without a level option starts
\* at the level its parent reports at that moment.
C20_UnsyncedCopiesLevel ==
    [][(lastOp' # lastOp /\ lastOp'.op = "with")
         => LET child == loggers'[lastOp'.target]
            IN  (child.syncLevel = "false" /\ child.given.level.t = "undef")
                => Level(loggers', levelDelegations', lastOp'.target)
                     = Level(loggers, levelDelegations, child.parent)]_vars

\* The cookies the Set-Cookie headers processed so far have set for a domain:
\* per name, the value of the header processed last.
RECURSIVE LastSetCookies(_, _, _)
LastSetCookies(log, domain, n) ==
    IF n = 0 THEN {}
    ELSE LET before == LastSetCookies(log, domain, n - 1)
             e == log[n]
         IN  IF e.domain # domain THEN before
             ELSE {k \in before : \A k2 \in e.cookies : k2.name # k.name} \cup e.cookies

\* C17: under any interleaving of the calls on one client, the jar holds, per
\* domain and cookie name, the value of the Set-Cookie header processed last:
\* no cookie a response set under a name no other response touched is lost, and
\* no cookie is there that no response set.
C17_JarNotCorrupted ==
    \A domain \in Domains :
        jar[domain] = LastSetCookies(cookieLog, domain, Len(cookieLog))

\* C17 witness: call 1 was still in flight when call 2 got its response; both
\* set cookies for one domain, call 2 "sid=b; lang=en" first, call 1 "sid=a"
\* last; both calls have settled and the jar holds sid=a and lang=en.
C17_Witness ==
    /\ Settled(call[1]) /\ Settled(call[2])
    /\ call[1].via = "client" /\ call[2].via = "client"
    /\ cookieLog = <<StoreEvent(2, "example.com", {Cookie("sid", "b"), Cookie("lang", "en")}),
                     StoreEvent(1, "example.com", {Cookie("sid", "a")})>>
    /\ jar["example.com"] = {Cookie("sid", "a"), Cookie("lang", "en")}

\* the cookies of the Cookie header the caller put into its options
ManualCookies(options) ==
    ParseCookieHeader(HeadersGet(NewHeaders(options.headers), "cookie"))
\* the cookies of the Cookie header of a built request
SentCookies(req) == ParseCookieHeader(HeadersGet(req.headers, "cookie"))

\* C12: a request call started on the client for domain D carries, in its Cookie
\* header, every cookie the responses processed before have set for D and every
\* cookie the caller supplied; under a name both have, the caller's value is
\* the one sent.
C12_CookiesReplayed ==
    [][\A c \in Calls :
          (call[c].pc = "idle" /\ call'[c].via = "client" /\ call'[c].req.built)
          => LET domain == CanonicalDomain(call'[c].url)
                 stored == LastSetCookies(cookieLog, domain, Len(cookieLog))
                 manual == ManualCookies(optObj[0])
                 sent == SentCookies(call'[c].req)
             IN  /\ manual \subseteq sent
                 /\ \A k \in stored : k.name \notin CookieNames(manual) => k \in sent
                 /\ sent \subseteq stored \cup manual
                 /\ IsCookieMap(sent)]_vars

\* C12 witness: a response set sid=b and lang=en for example.com; a later call
\* to example.com of a caller who supplies sid=manual was sent
\* "lang=en; sid=manual".
C12_Witness ==
    /\ Settled(call[1]) /\ call[1].via = "client" /\ call[1].url = "https://example.com"
    /\ cookieLog = <<StoreEvent(1, "example.com", {Cookie("sid", "b"), Cookie("lang", "en")})>>
    /\ call[2].via = "client" /\ call[2].url = "https://example.com"
    /\ call[2].req.built
    /\ ManualCookies(optObj[0]) = {Cookie("sid", "manual")}
    /\ HeadersGet(call[2].req.headers, "cookie") = "lang=en; sid=manual"

\* C13: when a call on the client ends with a RequestError that carries a
\* response, the cookies of that response's Set-Cookie headers are stored in the
\* jar for the call's domain, and the call is rejected with that very error.
C13_ErrorResponseCookies ==
    [][\A c \in Calls :
          LET cr == call[c]
              err == cr.log[Len(cr.log)].res.err
          IN  (/\ cr.pc = "attemptDone" /\ call'[c].pc = "rejected"
               /\ cr.via = "client"
               /\ err.name = "RequestError" /\ err.response # NoResponse)
              => /\ call'[c].outcome.err = err
                 /\ err.response.setCookie \subseteq jar'[CanonicalDomain(cr.url)]
                 /\ \A d \in Domains \ {CanonicalDomain(cr.url)} : jar'[d] = jar[d]]_vars

\* C13 witness: a call on the client was rejected with the RequestError of a 500
\* response that set sid=a, and the jar holds sid=a.
C13_Witness ==
    \E c \in Calls :
        /\ call[c].via = "client" /\ call[c].pc = "rejected"
        /\ call[c].outcome.err.name = "RequestError"
        /\ call[c].outcome.err.response.status = 500
        /\ call[c].outcome.err.response.setCookie = {Cookie("sid", "a")}
        /\ Cookie("sid", "a") \in jar[CanonicalDomain(call[c].url)]

\* the globalOptions layer the claim gives a call: the facade's calls get it,
\* the client's calls get none
ClaimedGlobal(cr) == IF cr.via = "client" THEN EmptyOptions ELSE cr.glob0

\* C14: globalOptions is the lowest layer of every request, get and post of the
\* facade and of no call on the client: the retry count, the timestamp
\* parameter and the headers of a call come from globalOptions only where the
\* call is a facade call that gives none of its own.
C14_GlobalOptionsFacadeOnly ==
    \A c \in Calls :
        LET cr == call[c]
            g == ClaimedGlobal(cr)
            append == LayeredStr(cr.arg0.appendTimestamp, g.appendTimestamp, "false")
            name == LayeredStr(cr.arg0.timestampParamName, g.timestampParamName, "t")
        IN  cr.pc # "idle"
            => /\ cr.maxRetry = LayeredNum(cr.arg0.maxRetry, g.maxRetry, IntNum(0))
               /\ cr.timeout = LayeredNum(cr.arg0.timeout, g.timeout, IntNum(120000))
               /\ cr.req.built
                    => /\ {p[1] : p \in {q \in cr.req.url.params : q[2] = "now"}}
                            = IF append = "true" THEN {name} ELSE {}
                       /\ HeadersGet(cr.req.headers, "x-global")
                            = IF cr.arg0.headers = {}
                              THEN HeadersGet(NewHeaders(g.headers), "x-global")
                              ELSE Undef

\* C14 witness: under a globalOptions with maxRetry 1, a timestamp and the header
\* X-Global, call 1 on the facade was built with all three and call 2 on the
\* client with none of them.
C14_Witness ==
    /\ globalOptions.headers = {<<"X-Global", "value">>}
    /\ call[1].via = "request" /\ call[1].req.built
    /\ call[1].maxRetry = IntNum(1)
    /\ HeadersGet(call[1].req.headers, "x-global") = "value"
    /\ <<"ts", "now">> \in call[1].req.url.params
    /\ call[2].via = "client" /\ call[2].req.built
    /\ call[2].maxRetry = IntNum(0)
    /\ HeadersGet(call[2].req.headers, "x-global") = Undef
    /\ call[2].req.url.params = {}

\* C18: when a call on the client gets a success response, the cookies of its
\* Set-Cookie headers are in the jar once the attempt is done, whether the
\* underlying transformer returned a value or threw.
C18_CookiesBeforeTransformer ==
    [][\A c \in Calls :
          LET cr == call'[c]
              a == cr.log[Len(cr.log)]
          IN  (/\ call[c].pc = "inflight" /\ cr.pc = "attemptDone"
               /\ cr.via = "client"
               /\ a.kind = "response" /\ a.status \in 200..299)
              => /\ Len(cookieLog') = Len(cookieLog) + 1
                 /\ cookieLog'[Len(cookieLog')].by = c
                 /\ cookieLog'[Len(cookieLog')].domain = CanonicalDomain(cr.url)
                 /\ cookieLog'[Len(cookieLog')].cookies
                      \subseteq jar'[CanonicalDomain(cr.url)]]_vars

\* C18 witness: a call on the client with a transformer that throws got a 200
\* response that set sid=a; the call was rejected with the transformer's error
\* and the jar holds sid=a.
C18_Witness ==
    \E c \in Calls :
        /\ call[c].via = "client" /\ call[c].pc = "rejected"
        /\ call[c].log[1].kind = "response" /\ call[c].log[1].status = 200
        /\ call[c].outcome.err = TransformerError
        /\ cookieLog = <<StoreEvent(c, "example.com", {Cookie("sid", "a")})>>
        /\ jar["example.com"] = {Cookie("sid", "a")}

\* C21: building a request leaves the caller's url argument as it was: the
\* parsed URL object a call was given is, after any number of builds, failed or
\* successful, what it was when the call was made, and every build of the call
\* ends as its first build did.
C21_UrlUnchanged ==
    \A c \in Calls :
        LET cr == call[c]
        IN  (cr.pc # "idle" /\ cr.url = "obj")
            => /\ urlObj = cr.url0
               /\ \A i \in 1..Len(cr.log) :
                     (cr.log[i].kind = "threw") = (cr.log[1].kind = "threw")

\* C24: once a call has settled, every timer it armed has fired or has been
\* cleared: none of them is pending.
C24_NoPendingTimer ==
    \A c \in Calls :
        Settled(call[c]) => \A i \in 1..call[c].attempts : <<c, i>> \notin timers.pending

\* C25: a call leaves the options object the caller passed as it was, its
\* signal field included.
C25_OptionsUnchanged ==
    \A c \in Calls :
        (call[c].pc # "idle" /\ call[c].opt = 0) => optObj[0] = call[c].arg0

\* the timeout a call resolves to: the one given, 120000 when none is given
ClaimedTimeout(cr) ==
    IF Given(cr, "timeout").t = "undef" THEN IntNum(120000) ELSE Given(cr, "timeout")

\* C22: an attempt arms a timer if and only if the call's timeout, 120000 when
\* absent, is a positive safe integer; an attempt of a call whose timeout is 0,
\* negative or no integer arms none and never fails with the timeout error.
C22_TimeoutArmed ==
    \A c \in Calls :
        LET cr == call[c]
        IN  cr.pc # "idle"
            => /\ cr.timeout = ClaimedTimeout(cr)
               /\ \A i \in 1..cr.attempts :
                     /\ (<<c, i>> \in CreatedSignals) = PositiveSafeInt(cr.timeout)
                     /\ ~PositiveSafeInt(cr.timeout)
                          => cr.log[i].res.err.message.text # "timeout"

\* the threshold of transport t for logger i: the transport's own level when it
\* has one, the logger's current level otherwise
Threshold(t, i) ==
    IF transports[t].level.t = "int" THEN transports[t].level.v
    ELSE Level(loggers, levelDelegations, i).v

\* C23: a log call at level L on logger i hands one and the same LogItem of
\* level L to each transport of the logger whose threshold is >= L, once, in the
\* order of the transports, and to no other; when no transport qualifies nothing
\* is handled and the caller's extra object stays as it was.
C23_LogFiltering ==
    [][lastOp'.op = "log"
         => LET i == lastOp'.target
                L == lastOp'.val
                mine == loggers[i].options.transports
                Qualifies(t) == Threshold(t, i) >= L.v
            IN  /\ \A k \in 1..Len(mine) :
                      Cardinality({h \in 1..Len(handled') : handled'[h].transport = mine[k]})
                        = IF Qualifies(mine[k]) THEN 1 ELSE 0
                /\ \A h \in 1..Len(handled') :
                      /\ \E k \in 1..Len(mine) : handled'[h].transport = mine[k]
                      /\ handled'[h].item = handled'[1].item
                      /\ handled'[h].item.level = L
                /\ \A h1, h2 \in 1..Len(handled') :
                      h1 < h2 => handled'[h1].transport < handled'[h2].transport
                /\ (\A k \in 1..Len(mine) : ~Qualifies(mine[k]))
                      => handled' = <<>> /\ extraObj' = extraObj]_vars

\* C23 witness: logger 2 shares logger 1's level, set to DEBUG through logger 1;
\* an INFO item logged on logger 2 went to the transport without a level of its
\* own and not to the transport whose own level is WARN.
C23_Witness ==
    /\ Len(loggers) = 2
    /\ loggers[2].parent = 1 /\ loggers[2].syncLevel = Undef
    /\ Level(loggers, levelDelegations, 2) = IntNum(LogLevel.DEBUG)
    /\ transports = <<Transport(IntNum(LogLevel.WARN)), Transport(UndefNum)>>
    /\ lastOp = [op |-> "log", target |-> 2, val |-> IntNum(LogLevel.INFO)]
    /\ Len(handled) = 1
    /\ handled[1].transport = 2
    /\ handled[1].item.level = IntNum(LogLevel.INFO)
====
